---- MODULE Spec2Model ----
(***************************************************************************)
(* Model of polynomial_solver.js: exact fractions over BigInt, the base    *)
(* decoder, the two Lagrange evaluators and the solve operations.          *)
(*                                                                         *)
(* Every exported function is a pure function of its arguments, so the     *)
(* state machine is a caller: from the idle state it calls one function    *)
(* with arguments drawn from a bounded set, the whole call is one action,  *)
(* and the state then holds the call (op, args) and what it produced       *)
(* (ret, acc).  A thrown Error is the result Err(name).                    *)
(***************************************************************************)
EXTENDS Integers, Sequences, FiniteSets

VARIABLES pc, op, args, ret, acc, truth

vars == <<pc, op, args, ret, acc, truth>>

----------------------------------------------------------------------------
(* Results: a returned value, a thrown Error, or (lagrangeEvaluate only)   *)
(* the diagnostic string `${numSum}/${denSum}`.                            *)

Ok(v) == [tag |-> "ok", val |-> v]

Err(e) == [tag |-> "err", err |-> e]

FracString(n, d) == [tag |-> "str", val |-> <<n, d>>]

NoResult == [tag |-> "none"]

IsOk(r) == r.tag = "ok"

IsErr(r, e) == r.tag = "err" /\ r.err = e

----------------------------------------------------------------------------
(* BigInt arithmetic: / truncates toward zero, % takes the dividend's sign *)

Abs(a) == IF a < 0 THEN -a ELSE a

BigIntDiv(a, b) ==
  IF (a < 0) = (b < 0) THEN Abs(a) \div Abs(b) ELSE -(Abs(a) \div Abs(b))

BigIntRem(a, b) == a - b * BigIntDiv(a, b)

Min(a, b) == IF a < b THEN a ELSE b

----------------------------------------------------------------------------
(* Exact fractions                                                         *)

RECURSIVE gcdLoop(_, _)
gcdLoop(a, b) == IF b = 0 THEN a ELSE gcdLoop(b, BigIntRem(a, b))

gcdBigInt(a, b) == gcdLoop(Abs(a), Abs(b))

(* simplifyFrac without the sign normalisation of the denominator          *)
simplifyFrac_KeepsSign(num, den) ==
  IF den = 0 THEN Err("ZeroDenominator")
  ELSE LET g == gcdBigInt(IF num < 0 THEN -num ELSE num, den)
       IN  Ok(<<BigIntDiv(num, g), BigIntDiv(den, g)>>)

simplifyFrac(num, den) ==
  IF den = 0 THEN Err("ZeroDenominator")
  ELSE LET n1 == IF den < 0 THEN -num ELSE num
           d1 == IF den < 0 THEN -den ELSE den
           g  == gcdBigInt(IF n1 < 0 THEN -n1 ELSE n1, d1)
       IN  Ok(<<BigIntDiv(n1, g), BigIntDiv(d1, g)>>)

addFrac(n1, d1, n2, d2) == simplifyFrac(n1 * d2 + n2 * d1, d1 * d2)

mulFracBigInt(n, d, k) == simplifyFrac(n * k, d)

----------------------------------------------------------------------------
(* binomBigInt: C(n, k) by the multiplicative formula, reduced each step   *)

RECURSIVE binomLoop(_, _, _, _, _)
binomLoop(n, k, i, num, den) ==
  IF i > k THEN BigIntDiv(num, den)
  ELSE LET num1 == num * (n - (i - 1))
           den1 == den * i
           g    == gcdBigInt(num1, den1)
       IN  binomLoop(n, k, i + 1, BigIntDiv(num1, g), BigIntDiv(den1, g))

(* binomBigInt with the loop one step short (i < k)                        *)
binomBigInt_ShortLoop(n, k) ==
  IF k < 0 \/ k > n THEN 0 ELSE binomLoop(n, Min(k, n - k) - 1, 1, 1, 1)

binomBigInt(n, k) ==
  IF k < 0 \/ k > n THEN 0 ELSE binomLoop(n, Min(k, n - k), 1, 1, 1)

----------------------------------------------------------------------------
(* baseToDecimal.  A string is a sequence of UTF-16 code units.            *)

Code0 == 48
Code9 == 57
CodeUpperA == 65
CodeUpperZ == 90
CodeLowerA == 97
CodeLowerI == 105
CodeLowerZ == 122
CodeCapitalIDotAbove == 304
CodeCombiningDotAbove == 775
MinBase == 2
MaxBase == 36

(* String.prototype.toLowerCase on a one-unit string: the Unicode default  *)
(* case mapping.  A..Z map to a..z; U+0130 maps to the two units           *)
(* U+0069 U+0307 (SpecialCasing.txt); the other units used here are fixed. *)
toLowerCase(c) ==
  IF c >= CodeUpperA /\ c <= CodeUpperZ THEN <<c + (CodeLowerA - CodeUpperA)>>
  ELSE IF c = CodeCapitalIDotAbove THEN <<CodeLowerI, CodeCombiningDotAbove>>
  ELSE <<c>>

(* The relational operators on strings: lexicographic by code unit.        *)
RECURSIVE StrLess(_, _)
StrLess(s, t) ==
  IF t = <<>> THEN FALSE
  ELSE IF s = <<>> THEN TRUE
  ELSE IF Head(s) # Head(t) THEN Head(s) < Head(t)
  ELSE StrLess(Tail(s), Tail(t))

StrGE(s, t) == ~StrLess(s, t)

StrLE(s, t) == ~StrLess(t, s)

RECURSIVE decodeLoop(_, _, _, _)
decodeLoop(value, base, i, result) ==
  IF i > Len(value) THEN Ok(result)
  ELSE LET ch       == toLowerCase(value[i])
           isDigit  == StrGE(ch, <<Code0>>) /\ StrLE(ch, <<Code9>>)
           isLetter == StrGE(ch, <<CodeLowerA>>) /\ StrLE(ch, <<CodeLowerZ>>)
           d        == IF isDigit THEN ch[1] - Code0 ELSE ch[1] - CodeLowerA + 10
       IN  IF ~isDigit /\ ~isLetter THEN Err("InvalidDigit")
           ELSE IF d >= base THEN Err("InvalidDigit")
           ELSE decodeLoop(value, base, i + 1, result * base + d)

baseToDecimal(value, base) ==
  IF base < MinBase \/ base > MaxBase THEN Err("InvalidBase")
  ELSE decodeLoop(value, base, 1, 0)

----------------------------------------------------------------------------
(* Lagrange evaluation.  A point is <<x, y>>; points is a sequence.        *)

slice(points, k) == SubSeq(points, 1, Min(k, Len(points)))

(* the inner loop over j # i: num *= (xEval - xj), den *= (xi - xj)        *)
RECURSIVE basisNum(_, _, _, _)
basisNum(selected, i, xEval, j) ==
  IF j = 0 THEN 1
  ELSE IF j = i THEN basisNum(selected, i, xEval, j - 1)
  ELSE basisNum(selected, i, xEval, j - 1) * (xEval - selected[j][1])

(* the denominator with the difference reversed (xj - xi)                  *)
RECURSIVE basisDen_Reversed(_, _, _)
basisDen_Reversed(selected, i, j) ==
  IF j = 0 THEN 1
  ELSE IF j = i THEN basisDen_Reversed(selected, i, j - 1)
  ELSE basisDen_Reversed(selected, i, j - 1) * (selected[j][1] - selected[i][1])

RECURSIVE basisDen(_, _, _)
basisDen(selected, i, j) ==
  IF j = 0 THEN 1
  ELSE IF j = i THEN basisDen(selected, i, j - 1)
  ELSE basisDen(selected, i, j - 1) * (selected[i][1] - selected[j][1])

(* one iteration of the outer loop: the term of point i added to the sum   *)
accumulate(selected, xEval, i, sum) ==
  IF ~IsOk(sum) THEN sum
  ELSE LET num  == basisNum(selected, i, xEval, Len(selected))
           den  == basisDen(selected, i, Len(selected))
           term == simplifyFrac(num * selected[i][2], den)
       IN  IF ~IsOk(term) THEN term
           ELSE addFrac(sum.val[1], sum.val[2], term.val[1], term.val[2])

(* The outer loop of lagrangeConstantAtZero, as the sequence of what each  *)
(* iteration leaves in (numSum, denSum): element i is the sum after point  *)
(* i, or the Error that iteration (or an earlier one) threw.               *)
RECURSIVE constantLoop(_, _)
constantLoop(selected, i) ==
  IF i = 0 THEN <<>>
  ELSE LET before == constantLoop(selected, i - 1)
           sum    == IF i = 1 THEN Ok(<<0, 1>>) ELSE before[i - 1]
       IN  Append(before, accumulate(selected, 0, i, sum))

(* the same for the outer loop of lagrangeEvaluate                         *)
RECURSIVE evaluateLoop(_, _, _)
evaluateLoop(selected, xEval, i) ==
  IF i = 0 THEN <<>>
  ELSE LET before == evaluateLoop(selected, xEval, i - 1)
           sum    == IF i = 1 THEN Ok(<<0, 1>>) ELSE before[i - 1]
       IN  Append(before, accumulate(selected, xEval, i, sum))

(* (numSum, denSum) when the loop ends: 0/1 when there was no iteration    *)
finalSum(steps) == IF steps = <<>> THEN Ok(<<0, 1>>) ELSE steps[Len(steps)]

hasDuplicateX(selected) ==
  \E i \in 1..Len(selected) : \E j \in (i + 1)..Len(selected) :
     selected[i][1] = selected[j][1]

isConsecutive(selected) == \A idx \in 1..Len(selected) : selected[idx][1] = idx

(* the closed form with the sign of every term flipped                     *)
RECURSIVE shortcutSum_SignFlipped(_, _, _)
shortcutSum_SignFlipped(selected, k, i) ==
  IF i = 0 THEN 0
  ELSE shortcutSum_SignFlipped(selected, k, i - 1)
       + (IF (i - 1) % 2 = 0 THEN -1 ELSE 1) * binomBigInt(k, i) * selected[i][2]

(* the closed form: sum over i of (-1)^i * C(k, i+1) * y_i, i from 0       *)
RECURSIVE shortcutSum(_, _, _)
shortcutSum(selected, k, i) ==
  IF i = 0 THEN 0
  ELSE shortcutSum(selected, k, i - 1)
       + (IF (i - 1) % 2 = 0 THEN 1 ELSE -1) * binomBigInt(k, i) * selected[i][2]

(* the general path returning the truncated quotient without the check    *)
generalConstant_Truncating(selected) ==
  LET sum == finalSum(constantLoop(selected, Len(selected)))
  IN  IF ~IsOk(sum) THEN sum ELSE Ok(BigIntDiv(sum.val[1], sum.val[2]))

generalConstant(selected) ==
  LET sum == finalSum(constantLoop(selected, Len(selected)))
  IN  IF ~IsOk(sum) THEN sum
      ELSE IF BigIntRem(sum.val[1], sum.val[2]) # 0 THEN Err("NonIntegerResult")
      ELSE Ok(BigIntDiv(sum.val[1], sum.val[2]))

lagrangeConstantAtZero(points, k) ==
  LET selected == slice(points, k)
  IN  IF Len(selected) < k THEN Err("NeedAtLeastK")
      ELSE IF hasDuplicateX(selected) THEN Err("DuplicatePosition")
      ELSE IF isConsecutive(selected) THEN Ok(shortcutSum(selected, k, k))
      ELSE generalConstant(selected)

lagrangeEvaluate(points, k, xEval) ==
  LET selected == slice(points, k)
      sum      == finalSum(evaluateLoop(selected, xEval, Len(selected)))
  IN  IF ~IsOk(sum) THEN sum
      ELSE IF BigIntRem(sum.val[1], sum.val[2]) # 0
           THEN FracString(sum.val[1], sum.val[2])
      ELSE Ok(BigIntDiv(sum.val[1], sum.val[2]))

----------------------------------------------------------------------------
(* solvePolynomial and solveFromFile.  jsonData is the parsed record:      *)
(* n, k and entries, a function from the keys present to [base, value],    *)
(* both strings.                                                           *)

(* parseInt(s, 10) on a string of decimal digits                           *)
RECURSIVE parseInt(_)
parseInt(s) ==
  IF s = <<>> THEN 0
  ELSE parseInt(SubSeq(s, 1, Len(s) - 1)) * 10 + (s[Len(s)] - Code0)

(* the loop for (i = 1; i <= n; i++) that decodes the entries present      *)
RECURSIVE collectPoints(_, _, _)
collectPoints(jsonData, i, points) ==
  IF i > jsonData.n THEN Ok(points)
  ELSE IF i \in DOMAIN jsonData.entries
       THEN LET base == parseInt(jsonData.entries[i].base)
                y    == baseToDecimal(jsonData.entries[i].value, base)
            IN  IF ~IsOk(y) THEN y
                ELSE collectPoints(jsonData, i + 1, Append(points, <<i, y.val>>))
  ELSE collectPoints(jsonData, i + 1, points)

(* points.sort((a, b) => a[0] - b[0]): a stable sort by position           *)
RECURSIVE insertByX(_, _)
insertByX(sorted, p) ==
  IF sorted = <<>> THEN <<p>>
  ELSE IF sorted[Len(sorted)][1] <= p[1] THEN Append(sorted, p)
  ELSE Append(insertByX(SubSeq(sorted, 1, Len(sorted) - 1), p), sorted[Len(sorted)])

RECURSIVE sortByX(_)
sortByX(points) ==
  IF points = <<>> THEN <<>>
  ELSE insertByX(sortByX(SubSeq(points, 1, Len(points) - 1)), points[Len(points)])

(* solvePolynomial testing the declared count n against k                  *)
solvePolynomial_DeclaredCount(jsonData) ==
  LET collected == collectPoints(jsonData, 1, <<>>)
  IN  IF ~IsOk(collected) THEN collected
      ELSE IF jsonData.n < jsonData.k THEN Err("InsufficientPoints")
      ELSE LET points       == sortByX(collected.val)
               constantTerm == lagrangeConstantAtZero(points, jsonData.k)
           IN  IF ~IsOk(constantTerm) THEN constantTerm
               ELSE Ok([constantTerm |-> constantTerm.val,
                        points |-> points, k |-> jsonData.k])

solvePolynomial(jsonData) ==
  LET collected == collectPoints(jsonData, 1, <<>>)
  IN  IF ~IsOk(collected) THEN collected
      ELSE IF Len(collected.val) < jsonData.k THEN Err("InsufficientPoints")
      ELSE LET points       == sortByX(collected.val)
               constantTerm == lagrangeConstantAtZero(points, jsonData.k)
           IN  IF ~IsOk(constantTerm) THEN constantTerm
               ELSE Ok([constantTerm |-> constantTerm.val,
                        points |-> points, k |-> jsonData.k])

(* one line of the consistency check: OK or MISMATCH for point idx         *)
consistencyLine(points, k, idx) ==
  LET px == lagrangeEvaluate(points, k, points[idx][1])
  IN  IF ~(px.tag \in {"ok", "str"}) THEN px
      ELSE IF px.tag = "ok" /\ px.val = points[idx][2] THEN Ok("OK")
      ELSE Ok("MISMATCH")

(* solveFromFile after the file is read and parsed: the constant term and  *)
(* the lines of the consistency check, or null when anything threw         *)
solveFromFile(jsonData) ==
  LET solved == solvePolynomial(jsonData)
  IN  IF ~IsOk(solved) THEN [tag |-> "null", err |-> solved.err]
      ELSE LET points == solved.val.points
               lines  == [idx \in 1..Len(points) |->
                            consistencyLine(points, solved.val.k, idx)]
           IN  IF \E idx \in 1..Len(points) : ~IsOk(lines[idx])
               THEN [tag |-> "null", err |-> "ZeroDenominator"]
               ELSE [tag |-> "ok", val |-> solved.val.constantTerm,
                     points |-> points,
                     check |-> [idx \in 1..Len(points) |-> lines[idx].val]]

----------------------------------------------------------------------------
(* The arguments the caller draws                                          *)

MaxNum == 5
MaxLen == 3
MaxCoef == 1
MaxStrLen == 3
MaxKey == 6
MaxThreshold == 4

RECURSIVE SeqsOfLen(_, _)
SeqsOfLen(S, n) ==
  IF n = 0 THEN {<<>>}
  ELSE {Append(s, e) : s \in SeqsOfLen(S, n - 1), e \in S}

SeqsUpTo(S, n) == UNION {SeqsOfLen(S, m) : m \in 0..n}

Nums == (-MaxNum)..MaxNum

(* the positions points are drawn at, and where the evaluator is asked     *)
Positions == {1, 2, 3, 4}

EvalPositions == {0} \cup Positions

YVals == {-1, 0, 1}

(* every list of 1..MaxLen points over Positions and YVals                 *)
PointLists == SeqsUpTo(Positions \X YVals, MaxLen) \ {<<>>}

Thresholds == 1..MaxLen

(* the thresholds tried on a list: one point to spare, none, one missing   *)
ThresholdsFor(points) ==
  {k \in Thresholds : Len(points) - 1 <= k /\ k <= Len(points) + 1}

(* integer-coefficient polynomials, coef[i] the coefficient of x^(i-1)     *)
CoefSeqs(k) == SeqsOfLen((-MaxCoef)..MaxCoef, k)

RECURSIVE evalPoly(_, _)
evalPoly(coef, x) ==
  IF coef = <<>> THEN 0 ELSE Head(coef) + x * evalPoly(Tail(coef), x)

samplePoints(coef, xs) == [i \in 1..Len(xs) |-> <<xs[i], evalPoly(coef, xs[i])>>]

firstDistinct(xs, k) ==
  \A i \in 1..k : \A j \in 1..k : i # j => xs[i] # xs[j]

(* position lists of k..MaxLen positions whose first k are distinct        *)
PositionLists(k) ==
  {xs \in UNION {SeqsOfLen(Positions, m) : m \in k..MaxLen} : firstDistinct(xs, k)}

Alphabet ==
  {45, Code0, Code0 + 1, Code9, CodeUpperA, CodeUpperZ,
   CodeLowerA, CodeLowerZ, CodeCapitalIDotAbove}

Strings == SeqsUpTo(Alphabet, MaxStrLen)

Bases == (MinBase - 1)..(MaxBase + 1)

(* digit strings, as Number.prototype.toString(base) writes them           *)
digitUnit(d) == IF d < 10 THEN Code0 + d ELSE CodeLowerA + (d - 10)

RECURSIVE encode(_, _)
encode(v, base) ==
  IF v < base THEN <<digitUnit(v)>>
  ELSE Append(encode(v \div base, base), digitUnit(v % base))

(* The input records: testCase1 of createTestFiles (keys 1, 2, 3 and 6 of  *)
(* x^2 + 3, in bases 10, 2, 10 and 4) continued over the keys 1..MaxKey,   *)
(* any subset of the keys present, at most one entry present altered:      *)
(* corrupted (the value one more) or invalid (a digit equal to the base).  *)
fixtureCoef == <<3, 0, 1>>

fixtureBase(i) ==
  IF i = 2 THEN 2 ELSE IF i = 6 THEN 4 ELSE IF i % 2 = 1 THEN 10 ELSE 16

fixtureEntry(i, kind) ==
  LET base == fixtureBase(i)
      y    == evalPoly(fixtureCoef, i)
  IN  [base  |-> encode(base, 10),
       value |-> IF kind = "corrupted" THEN encode(y + 1, base)
                 ELSE IF kind = "invalid" THEN Append(encode(y, base), digitUnit(base))
                 ELSE encode(y, base)]

Alterations ==
  {[key |-> 0, kind |-> "good"]}
  \cup {[key |-> i, kind |-> kd] : i \in 1..MaxKey, kd \in {"corrupted", "invalid"}}

fixtureData(n, k, present, alt) ==
  [n |-> n, k |-> k,
   entries |-> [i \in present |->
                  fixtureEntry(i, IF i = alt.key THEN alt.kind ELSE "good")]]

----------------------------------------------------------------------------
(* The caller                                                              *)

Init ==
  /\ pc = "idle"
  /\ op = "none"
  /\ args = <<>>
  /\ ret = NoResult
  /\ acc = <<>>
  /\ truth = <<>>

Call(name, a, r, trace, t) ==
  /\ pc' = "done"
  /\ op' = name
  /\ args' = a
  /\ ret' = r
  /\ acc' = trace
  /\ truth' = t

Return ==
  /\ pc = "done"
  /\ pc' = "idle"
  /\ op' = "none"
  /\ args' = <<>>
  /\ ret' = NoResult
  /\ acc' = <<>>
  /\ truth' = <<>>

CallSimplifyFrac ==
  /\ pc = "idle"
  /\ \E num \in Nums, den \in Nums :
     Call("simplifyFrac", <<num, den>>, simplifyFrac(num, den), <<>>, <<>>)

CallAddFrac ==
  /\ pc = "idle"
  /\ \E n1 \in Nums, d1 \in Nums, n2 \in Nums, d2 \in Nums :
     Call("addFrac", <<n1, d1, n2, d2>>, addFrac(n1, d1, n2, d2), <<>>, <<>>)

CallMulFracBigInt ==
  /\ pc = "idle"
  /\ \E n \in Nums, d \in Nums, k \in Nums :
     Call("mulFracBigInt", <<n, d, k>>, mulFracBigInt(n, d, k), <<>>, <<>>)

CallBaseToDecimal ==
  /\ pc = "idle"
  /\ \E value \in Strings, base \in Bases :
     Call("baseToDecimal", [value |-> value, base |-> base],
          baseToDecimal(value, base), <<>>, <<>>)

(* the values (numSum, denSum) took, one per completed iteration           *)
okPrefix(trace) == SelectSeq(trace, IsOk)

constantTrace(points, k) ==
  LET selected == slice(points, k)
  IN  IF Len(selected) < k \/ hasDuplicateX(selected) \/ isConsecutive(selected)
      THEN <<>>
      ELSE okPrefix(constantLoop(selected, Len(selected)))

evaluateTrace(points, k, xEval) ==
  LET selected == slice(points, k)
  IN  okPrefix(evaluateLoop(selected, xEval, Len(selected)))

ConstantAtZero(points, k, t) ==
  Call("lagrangeConstantAtZero", [points |-> points, k |-> k],
       lagrangeConstantAtZero(points, k), constantTrace(points, k), t)

CallLagrangeConstantAtZero ==
  /\ pc = "idle"
  /\ \E points \in PointLists : \E k \in ThresholdsFor(points) :
       ConstantAtZero(points, k, <<>>)

(* the same call on samples of a known polynomial of degree < k            *)
CallLagrangeConstantAtZeroOnSamples ==
  /\ pc = "idle"
  /\ \E k \in Thresholds : \E coef \in CoefSeqs(k), xs \in PositionLists(k) :
     ConstantAtZero(samplePoints(coef, xs), k, coef)

CallLagrangeEvaluate ==
  /\ pc = "idle"
  /\ \E points \in PointLists, xEval \in EvalPositions :
     \E k \in ThresholdsFor(points) \cap 1..Len(points) :
     Call("lagrangeEvaluate", [points |-> points, k |-> k, xEval |-> xEval],
          lagrangeEvaluate(points, k, xEval), evaluateTrace(points, k, xEval), <<>>)

CallSolvePolynomial ==
  /\ pc = "idle"
  /\ \E n \in 0..MaxKey, k \in 1..MaxThreshold, present \in SUBSET (1..MaxKey) :
    \E alt \in {a \in Alterations : a.key = 0 \/ a.key \in present} :
       Call("solvePolynomial", fixtureData(n, k, present, alt),
            solvePolynomial(fixtureData(n, k, present, alt)), <<>>, alt)

CallSolveFromFile ==
  /\ pc = "idle"
  /\ \E n \in 0..MaxKey, k \in 1..MaxThreshold, present \in SUBSET (1..MaxKey) :
    \E alt \in {a \in Alterations : a.key = 0 \/ a.key \in present} :
       Call("solveFromFile", fixtureData(n, k, present, alt),
            solveFromFile(fixtureData(n, k, present, alt)), <<>>, alt)

(* the two entry points that return the constant term from points         *)
NextInterpolate ==
  \/ CallLagrangeConstantAtZero
  \/ CallLagrangeConstantAtZeroOnSamples
  \/ Return

(* the fraction helpers and the two loops that accumulate with them        *)
NextArith ==
  \/ CallSimplifyFrac
  \/ CallAddFrac
  \/ CallMulFracBigInt
  \/ CallLagrangeConstantAtZero
  \/ CallLagrangeEvaluate
  \/ Return

NextDecode ==
  \/ CallBaseToDecimal
  \/ Return

NextSolve ==
  \/ CallSolvePolynomial
  \/ CallSolveFromFile
  \/ Return

(* the evaluator and the consistency check that calls it                   *)
NextCheck ==
  \/ CallLagrangeEvaluate
  \/ CallSolveFromFile
  \/ Return

Next ==
  \/ CallSimplifyFrac
  \/ CallAddFrac
  \/ CallMulFracBigInt
  \/ CallBaseToDecimal
  \/ CallLagrangeConstantAtZero
  \/ CallLagrangeConstantAtZeroOnSamples
  \/ CallLagrangeEvaluate
  \/ CallSolvePolynomial
  \/ CallSolveFromFile
  \/ Return

Spec == Init /\ [][Next]_vars

SpecInterpolate == Init /\ [][NextInterpolate]_vars

SpecArith == Init /\ [][NextArith]_vars

SpecDecode == Init /\ [][NextDecode]_vars

SpecSolve == Init /\ [][NextSolve]_vars

SpecCheck == Init /\ [][NextCheck]_vars

----------------------------------------------------------------------------
(* Reference arithmetic the properties are stated in                       *)

Reduced(n, d) ==
  /\ d > 0
  /\ \A g \in 2..d : ~(Abs(n) % g = 0 /\ d % g = 0)

Called(name) == pc = "done" /\ op = name

Selected == slice(args.points, args.k)

DistinctFirstK ==
  /\ Len(args.points) >= args.k
  /\ \A i \in 1..args.k : \A j \in 1..args.k :
        i # j => args.points[i][1] # args.points[j][1]

(* the exact value at x of the interpolant through pts is                  *)
(* ExactNum(pts, x) / ExactDen(pts), over the common denominator           *)
(* ExactDen(pts) = product over i of product over j # i of (x_i - x_j)     *)
RECURSIVE ProductOver(_, _, _)
ProductOver(f(_), skip, n) ==
  IF n = 0 THEN 1
  ELSE IF n = skip THEN ProductOver(f, skip, n - 1)
  ELSE f(n) * ProductOver(f, skip, n - 1)

RECURSIVE SumOver(_, _)
SumOver(f(_), n) == IF n = 0 THEN 0 ELSE f(n) + SumOver(f, n - 1)

PointDen(pts, i) ==
  LET diff(j) == pts[i][1] - pts[j][1] IN ProductOver(diff, i, Len(pts))

ExactDen(pts) ==
  LET den(i) == PointDen(pts, i) IN ProductOver(den, 0, Len(pts))

(* the sum of the first n terms, over ExactDen(pts)                        *)
PartialNum(pts, x, n) ==
  LET term(i) ==
        LET away(j)  == x - pts[j][1]
            other(m) == PointDen(pts, m)
        IN  pts[i][2] * ProductOver(away, i, Len(pts)) * ProductOver(other, i, Len(pts))
  IN  SumOver(term, n)

ExactNum(pts, x) == PartialNum(pts, x, Len(pts))

----------------------------------------------------------------------------
(* C1: on at least k points whose first k positions are distinct and whose *)
(* values are P(position) for an integer polynomial P of degree < k,       *)
(* lagrangeConstantAtZero returns exactly P(0), on either path.            *)
C1_ConstantTermOfSamples ==
  (Called("lagrangeConstantAtZero") /\ truth # <<>>) => ret = Ok(truth[1])

(* a non-consecutive case with a point beyond the first k *)
C1_Witness ==
  /\ Called("lagrangeConstantAtZero")
  /\ truth # <<>>
  /\ args.k = 3
  /\ ~isConsecutive(Selected)
  /\ truth[3] # 0
  /\ ret = Ok(truth[1])
  /\ truth[1] # 0

(* C4: at positions 1, 2, ..., k the closed-form shortcut returns what the *)
(* general Lagrange sum at 0 returns on the same data, an integer: both    *)
(* the general loop of lagrangeConstantAtZero and lagrangeEvaluate at 0.   *)
C4_ShortcutEqualsGeneral ==
  (Called("lagrangeConstantAtZero") /\ DistinctFirstK /\ isConsecutive(Selected))
    => /\ IsOk(ret)
       /\ ret = generalConstant(Selected)
       /\ ret = lagrangeEvaluate(args.points, args.k, 0)

C4_Witness ==
  /\ Called("lagrangeConstantAtZero")
  /\ DistinctFirstK
  /\ isConsecutive(Selected)
  /\ args.k = 3
  /\ IsOk(ret)
  /\ ret.val # 0
  /\ ret = generalConstant(Selected)

(* C7: on k points with distinct positions whose exact interpolated value  *)
(* at 0 is not an integer, lagrangeConstantAtZero fails with the           *)
(* non-integer-result error and returns no value.                          *)
C7_NonIntegerIsAnError ==
  (/\ Called("lagrangeConstantAtZero")
   /\ DistinctFirstK
   /\ ExactNum(Selected, 0) % Abs(ExactDen(Selected)) # 0)
    => IsErr(ret, "NonIntegerResult")

C7_Witness ==
  /\ Called("lagrangeConstantAtZero")
  /\ DistinctFirstK
  /\ args.k = 3
  /\ ExactNum(Selected, 0) % Abs(ExactDen(Selected)) # 0
  /\ IsErr(ret, "NonIntegerResult")

(* C8: when two of the first k points share a position, both               *)
(* lagrangeConstantAtZero and lagrangeEvaluate fail with the               *)
(* duplicate-position error.                                               *)
C8_DuplicateIsReported ==
  (/\ Called("lagrangeConstantAtZero") \/ Called("lagrangeEvaluate")
   /\ Len(args.points) >= args.k
   /\ ~DistinctFirstK)
    => IsErr(ret, "DuplicatePosition")

(* C9: every fraction simplifyFrac, addFrac and mulFracBigInt produce, and *)
(* the pair (numSum, denSum) after every iteration of the two Lagrange     *)
(* loops, has a positive denominator and is in lowest terms, and equals    *)
(* the unreduced input as a rational; a zero denominator is the            *)
(* zero-denominator error.                                                 *)
FractionOf(num, den) ==
  IF den = 0 THEN IsErr(ret, "ZeroDenominator")
  ELSE /\ IsOk(ret)
       /\ Reduced(ret.val[1], ret.val[2])
       /\ ret.val[1] * den = num * ret.val[2]

C9_FractionsReduced ==
  /\ Called("simplifyFrac") => FractionOf(args[1], args[2])
  /\ Called("addFrac") =>
       FractionOf(args[1] * args[4] + args[3] * args[2], args[2] * args[4])
  /\ Called("mulFracBigInt") => FractionOf(args[1] * args[3], args[2])
  /\ Called("lagrangeConstantAtZero") \/ Called("lagrangeEvaluate") =>
       \A i \in 1..Len(acc) :
          /\ Reduced(acc[i].val[1], acc[i].val[2])
          /\ LET xEval == IF op = "lagrangeEvaluate" THEN args.xEval ELSE 0
             IN  acc[i].val[1] * ExactDen(Selected)
                   = PartialNum(Selected, xEval, i) * acc[i].val[2]

C9_Witness ==
  /\ Called("lagrangeEvaluate")
  /\ Len(acc) = 3
  /\ acc[2].val[2] > 1
  /\ acc[3].val[1] < 0
  /\ Reduced(acc[2].val[1], acc[2].val[2])

(* C10: when the first k positions are distinct, lagrangeEvaluate at the   *)
(* position of any of the first k points returns that point's value as an  *)
(* integer, so the consistency check of solveFromFile reports OK for each  *)
(* of the first k points and MISMATCH only after them.                     *)
C10_InterpolatesFirstK ==
  /\ (Called("lagrangeEvaluate") /\ DistinctFirstK) =>
       \A i \in 1..args.k :
          args.points[i][1] = args.xEval => ret = Ok(args.points[i][2])
  /\ (Called("solveFromFile") /\ ret.tag = "ok") =>
       \A idx \in 1..Len(ret.check) :
          ret.check[idx] = "MISMATCH" => idx > args.k

C10_Witness ==
  /\ Called("lagrangeEvaluate")
  /\ DistinctFirstK
  /\ args.k = 2
  /\ Len(args.points) > args.k
  /\ ~isConsecutive(Selected)
  /\ args.points[2][1] = args.xEval
  /\ args.points[2][2] # 0
  /\ ret = Ok(args.points[2][2])

----------------------------------------------------------------------------
(* The input records of the solve operations                               *)

PresentKeys == DOMAIN args.entries \cap 1..args.n

(* the entries the loop reaches all decode *)
AllDecode == ~(truth.kind = "invalid" /\ truth.key \in PresentKeys)

(* C2: with k = 3, n > k, all n points present and one of them corrupted,  *)
(* the solve operation returns the constant term of the polynomial, the    *)
(* consistency check agrees with n - 1 points and not with the corrupted   *)
(* one.                                                                    *)
C2_OneCorruptedPointTolerated ==
  (/\ Called("solveFromFile")
   /\ args.k = 3
   /\ args.n > args.k
   /\ DOMAIN args.entries = 1..args.n
   /\ truth.kind = "corrupted")
    => /\ ret.tag = "ok"
       /\ ret.val = fixtureCoef[1]
       /\ \A idx \in 1..Len(ret.points) :
            ret.check[idx] = "OK" <=> ret.points[idx][1] # truth.key

(* C3: for n = 4, k = 3 and the entries at keys 1, 2, 3 and 6 decoding to  *)
(* (1,4), (2,7), (3,12), (6,39), the solve operation returns 3 and all     *)
(* four points are in the point list and agree with the polynomial.        *)
testCase1 == fixtureData(4, 3, {1, 2, 3, 6}, [key |-> 0, kind |-> "good"])

C3_TestCase1AllFourPoints ==
  (Called("solveFromFile") /\ args = testCase1)
    => /\ ret.tag = "ok"
       /\ ret.val = 3
       /\ ret.points = <<<<1, 4>>, <<2, 7>>, <<3, 12>>, <<6, 39>>>>
       /\ \A idx \in 1..Len(ret.points) : ret.check[idx] = "OK"

(* C5 as stated: the insufficient-points error is raised exactly when the  *)
(* declared count n is smaller than k.                                     *)
C5_ByDeclaredCount ==
  Called("solvePolynomial") =>
    (IsErr(ret, "InsufficientPoints") <=> args.n < args.k)

(* C5, amended: the insufficient-points error is raised exactly when every *)
(* entry present at a key in 1..n decodes and fewer than k entries are     *)
(* present at the keys 1..n.                                               *)
C5_ByUsablePoints ==
  Called("solvePolynomial") =>
    (IsErr(ret, "InsufficientPoints")
       <=> (AllDecode /\ Cardinality(PresentKeys) < args.k))

(* n >= k, yet too few of the keys 1..n are present *)
C5_Witness ==
  /\ Called("solvePolynomial")
  /\ args.n >= args.k
  /\ Cardinality(PresentKeys) < args.k
  /\ Cardinality(PresentKeys) > 0
  /\ IsErr(ret, "InsufficientPoints")

----------------------------------------------------------------------------
(* C6: baseToDecimal fails with the invalid-base error when base is        *)
(* outside 2..36; otherwise, when every lower-cased character is one of    *)
(* 0-9a-z with digit value < base it returns the sum of                    *)
(* digit_i * base^(len-1-i), and when some character is not it fails with  *)
(* the invalid-digit error.                                                *)
DigitValue(c) ==
  IF c >= Code0 /\ c <= Code9 THEN c - Code0
  ELSE IF c >= CodeLowerA /\ c <= CodeLowerZ THEN c - CodeLowerA + 10
  ELSE IF c >= CodeUpperA /\ c <= CodeUpperZ THEN c - CodeUpperA + 10
  ELSE -1

RECURSIVE PositionalValue(_, _)
PositionalValue(value, base) ==
  IF value = <<>> THEN 0
  ELSE PositionalValue(SubSeq(value, 1, Len(value) - 1), base) * base
       + DigitValue(value[Len(value)])

C6_DecoderTotal ==
  Called("baseToDecimal") =>
    IF args.base < 2 \/ args.base > 36 THEN IsErr(ret, "InvalidBase")
    ELSE IF \A i \in 1..Len(args.value) :
              DigitValue(args.value[i]) >= 0 /\ DigitValue(args.value[i]) < args.base
         THEN ret = Ok(PositionalValue(args.value, args.base))
         ELSE IsErr(ret, "InvalidDigit")

====
